---- MODULE Spec2Model ----
(***************************************************************************)
(* ChatWave: the client-side session state of App (src/unnamed/part_000).  *)
(* The React state cells are the variables of the same names; every event  *)
(* handler, promise continuation and listener callback is one action.  A   *)
(* committed render whose effect dependencies changed is followed by the   *)
(* effect's cleanup and then its body (effectPc), with no other event in   *)
(* between, as React flushes the passive effects of a commit together.     *)
(* The identity provider, the document store and their callbacks are the   *)
(* environment.  Strings that the code inspects character by character     *)
(* (trim, split) are sequences of one-character strings.                   *)
(***************************************************************************)
EXTENDS Integers, Sequences, FiniteSets, TLC

VARIABLES
    authUser,       \* identity provider: uid of the signed-in account, or NoUid
    fetching,       \* auth callbacks suspended at `await getDoc(...)`, by uid
    accounts,       \* identity provider: the uids that have an account
    profiles,       \* document store: nickname of each users/<uid> document
    user,           \* useState(null): the session user
    email,          \* useState(""): e-mail field of the sign-in form
    password,       \* useState(""): password field
    nickname,       \* useState(""): nickname field (registration)
    secretKey,      \* useState(""): secret key field (registration)
    isLogin,        \* useState(true): the form signs in (TRUE) or registers
    loading,        \* useState(false): handleAuth is running
    authPc,         \* handleAuth: "idle", "signIn", "createUser" or "setDoc"
    authReq,        \* the field values handleAuth was submitted with
    currentRoom,    \* useState(null): id of the current room, or NoRoom
    roomPasscodes,  \* useState({}): passcode typed for each room
    message,        \* useState(""): the composer buffer
    messages,       \* useState([]): the local message list
    store,          \* document store: the documents of rooms/<id>/messages
    clock,          \* document store: server timestamps handed out so far
    inflight,       \* addDoc calls not yet settled (submitHandler suspended)
    listeners,      \* document store: onSnapshot listeners attached per room
    unsubscribe,    \* the `unsubscribe` captured by the effect's cleanup closure
    effectPc,       \* subscription effect: "idle", "cleanup" or "setup"
    released,       \* history: room of the handle released last, or NoRoom
    doubleRelease,  \* history: a cleanup released a handle that was not attached
    logoutPc,       \* logoutHandler: "idle" or "awaitSignOut"
    summary,        \* useState(null): the displayed summary
    summaryRoom,    \* history: room of the request whose answer is displayed
    isGeneratingSummary, \* useState(false): the summarizer's in-flight flag
    geminiApiKey,   \* useState(process.env.REACT_APP_GEMINI_API_KEY)
    summaryReqs,    \* generateContent calls not yet settled
    notification,   \* useState(null): the banner
    timers,         \* pending setTimeout(() => setNotification(null), 1000)
    lastOp          \* history: the handler or callback that ran last, with its outcome

vars == <<authUser, fetching, accounts, profiles, user, email, password, nickname,
          secretKey, isLogin, loading, authPc, authReq, currentRoom, roomPasscodes, message, messages,
          store, clock, inflight, listeners, unsubscribe, effectPc, released,
          doubleRelease, logoutPc, summary, summaryRoom, isGeneratingSummary,
          geminiApiKey, summaryReqs, notification, timers, lastOp>>

----------------------------------------------------------------------------
(* Bounds of the model *)

\* documents the store accepts in one run
MaxDocs == 2
\* addDoc calls in flight at once
MaxInFlight == 2
\* notification timers pending at once
MaxTimers == 2
\* generateContent calls in flight at once
MaxSummaryReqs == 2

----------------------------------------------------------------------------
(* Values *)

NoUid == ""
NoRoom == ""
NoUser == [uid |-> "", email |-> <<>>, nickname |-> <<>>]
NoNotification == [message |-> "", type |-> ""]
NoSummary == <<>>
NoKey == ""

\* the uids the identity provider hands out, with their e-mail addresses;
\* u1 and u2 have an account from the start, u1 with a stored nickname
Uids == {"u1", "u2", "u3"}
EmailOf(uid) ==
    IF uid = "u1" THEN <<"a", "l", "@", "x">>
    ELSE IF uid = "u2" THEN <<"b", "o", "@", "x">>
    ELSE <<"c", "y", "@", "x">>

\* the password of every account
PasswordOf(uid) == "pw-" \o uid

\* process.env.REACT_APP_SECRET_KEY of the deployment
SECRET_KEY == "s3cret"

\* what a user may type into the secret key field: the field is `required`
SecretKeys == {"s3cret", "s3cre", "S3CRET"}

\* what a user may type into the nickname field
Nicknames == {<<"C", "y">>}

NoAuthReq == [email |-> <<>>, password |-> "", nickname |-> <<>>]

\* userData?.nickname of the users/<uid> document; <<>> when there is none
ProfileNickname(uid) == profiles[uid]

\* the room registry; the passcodes are the deployment's environment values
CHAT_ROOMS ==
    [general |-> [name |-> "General Chat", passcode |-> "k1",
                  joined |-> "Successfully joined General Chat"],
     tech    |-> [name |-> "Tech Talk", passcode |-> "k2",
                  joined |-> "Successfully joined Tech Talk"],
     random  |-> [name |-> "Random Stuff", passcode |-> "k3",
                  joined |-> "Successfully joined Random Stuff"]]

RoomIds == DOMAIN CHAT_ROOMS

\* a passcode field never typed into: roomPasscodes starts as {}
NoEntry == "undefined"

\* what a user may type into a passcode field
Passcodes == {"", "k1", "k2", "k3", "zz"}

\* REACT_APP_GEMINI_API_KEY of a deployment: not configured, or a key
GeminiApiKeys == {NoKey, "g1"}

\* a timestamp field holding null
NoTimestamp == 0

\* what a user may type into the composer
Texts == {<<>>, <<" ">>, <<"h", "i">>, <<" ", "y", " ">>}

----------------------------------------------------------------------------
(* Pure helpers *)

IsSpace(c) == c \in {" ", "\t", "\n"}

RECURSIVE TrimStart(_)
TrimStart(s) ==
    IF s = <<>> THEN <<>>
    ELSE IF IsSpace(Head(s)) THEN TrimStart(Tail(s)) ELSE s

RECURSIVE TrimEnd(_)
TrimEnd(s) ==
    IF s = <<>> THEN <<>>
    ELSE IF IsSpace(s[Len(s)]) THEN TrimEnd(SubSeq(s, 1, Len(s) - 1)) ELSE s

\* String.prototype.trim
Trim(s) == TrimEnd(TrimStart(s))

\* email.split('@')[0]
RECURSIVE LocalPart(_)
LocalPart(s) ==
    IF s = <<>> THEN <<>>
    ELSE IF Head(s) = "@" THEN <<>> ELSE <<Head(s)>> \o LocalPart(Tail(s))

\* userData?.nickname || firebaseUser.email.split('@')[0]
NicknameFor(uid) ==
    IF ProfileNickname(uid) # <<>> THEN ProfileNickname(uid) ELSE LocalPart(EmailOf(uid))

\* roomPasscodes[room.id] || ""
EnteredPasscode(r) ==
    IF roomPasscodes[r] = NoEntry \/ roomPasscodes[r] = "" THEN "" ELSE roomPasscodes[r]

\* query(collection(db, "rooms", id, "messages"), orderBy("timestamp"))
RECURSIVE OrderByTimestamp(_)
OrderByTimestamp(docs) ==
    IF docs = {} THEN <<>>
    ELSE LET first == CHOOSE d \in docs : \A e \in docs :
                          \/ d.data.timestamp < e.data.timestamp
                          \/ d.data.timestamp = e.data.timestamp /\ d.id <= e.id
         IN  <<first>> \o OrderByTimestamp(docs \ {first})

\* { id: doc.id, ...doc.data() }
Flatten(d) ==
    [id |-> d.id, text |-> d.data.text, uid |-> d.data.uid, email |-> d.data.email,
     nickname |-> d.data.nickname, timestamp |-> d.data.timestamp]

\* querySnapshot.forEach(doc => msgs.push({ id: doc.id, ...doc.data() }))
Snapshot(docs) ==
    LET ordered == OrderByTimestamp(docs)
    IN  [i \in 1..Len(ordered) |-> Flatten(ordered[i])]

\* Array.prototype.filter
RECURSIVE SelectValid(_)

IsValidMessageEitherField(msg) == msg.text # <<>> \/ msg.nickname # <<>>

\* msg.text && msg.nickname: a missing field and an empty string are both falsy
IsValidMessage(msg) == msg.text # <<>> /\ msg.nickname # <<>>

SelectValid(msgs) ==
    IF msgs = <<>> THEN <<>>
    ELSE IF IsValidMessage(Head(msgs))
         THEN <<Head(msgs)>> \o SelectValid(Tail(msgs))
         ELSE SelectValid(Tail(msgs))

DigitChars == <<"0", "1", "2", "3", "4", "5", "6", "7", "8", "9">>

\* the decimal numeral of n
RECURSIVE Decimal(_)
Decimal(n) ==
    IF n < 10 THEN <<DigitChars[n + 1]>>
    ELSE Decimal(n \div 10) \o <<DigitChars[(n % 10) + 1]>>

\* new Date(msg.timestamp.seconds * 1000).toLocaleString(): the date and time
\* of the instant, written here as "d" and the instant's number
FormatTime(ts) == <<"d">> \o Decimal(ts)

UnknownTime == <<"U", "n", "k", "n", "o", "w", "n", " ", "t", "i", "m", "e">>

\* `[${timestamp}] ${msg.nickname}: ${msg.text}`
TranscriptLine(msg) ==
    <<"[">>
    \o (IF msg.timestamp # NoTimestamp THEN FormatTime(msg.timestamp) ELSE UnknownTime)
    \o <<"]", " ">> \o msg.nickname \o <<":", " ">> \o msg.text

\* Array.prototype.join('\n')
RECURSIVE JoinLines(_)
JoinLines(lines) ==
    IF lines = <<>> THEN <<>>
    ELSE IF Len(lines) = 1 THEN lines[1]
    ELSE lines[1] \o <<"\n">> \o JoinLines(Tail(lines))

\* messages.filter(...).map(...).join('\n')
ChatHistory(msgs) ==
    LET valid == SelectValid(msgs)
    IN  JoinLines([i \in 1..Len(valid) |-> TranscriptLine(valid[i])])

\* the text the endpoint returns for a prompt built from a transcript
GeneratedText(chatHistory) == <<"S", ":">> \o chatHistory

\* error.message of the failures of the endpoint, as the words the message is
\* made of; <<>> is an error without a message
ProviderErrors ==
    {<<"API_KEY_INVALID">>, <<"429", "QUOTA_EXCEEDED">>, <<"BLOCKED", "SAFETY">>,
     <<"QUOTA_EXCEEDED", "BLOCKED">>, <<"fetch", "failed">>, <<>>}

\* error.message?.includes(marker)
Includes(msg, marker) == \E i \in 1..Len(msg) : msg[i] = marker

ClassifyFirstMarkerOnly(msg) ==
    IF msg # <<>> /\ msg[1] = "API_KEY_INVALID" THEN "Invalid Gemini API key"
    ELSE IF msg # <<>> /\ msg[1] = "QUOTA_EXCEEDED"
         THEN "API quota exceeded. Please try again later."
    ELSE IF msg # <<>> /\ msg[1] = "BLOCKED" THEN "Content was blocked by safety filters"
    ELSE "Failed to generate summary"

\* the catch block's errorMessage
Classify(msg) ==
    IF Includes(msg, "API_KEY_INVALID") THEN "Invalid Gemini API key"
    ELSE IF Includes(msg, "QUOTA_EXCEEDED")
         THEN "API quota exceeded. Please try again later."
    ELSE IF Includes(msg, "BLOCKED") THEN "Content was blocked by safety filters"
    ELSE "Failed to generate summary"

\* the handler or callback that ran last
LastOpIs(name) == Len(lastOp) > 0 /\ lastOp[1] = name

TotalListeners == listeners["general"] + listeners["tech"] + listeners["random"]

RemoveAt(s, i) == SubSeq(s, 1, i - 1) \o SubSeq(s, i + 1, Len(s))

----------------------------------------------------------------------------
(* Groups of variables an action leaves alone *)

providerVars == <<authUser, fetching>>
storeVars == <<store, clock>>
subVars == <<listeners, unsubscribe, released, doubleRelease>>
bannerVars == <<notification, timers>>
authVars == <<accounts, profiles, email, password, nickname, secretKey, isLogin,
              loading, authPc, authReq>>
summarizerVars == <<summaryRoom, isGeneratingSummary, geminiApiKey, summaryReqs>>

----------------------------------------------------------------------------
(* showNotification *)

\* a timer slot is free (the bound of the model on pending timeouts)
CanNotify == timers < MaxTimers

\* setNotification({ message, type }); setTimeout(() => setNotification(null), 1000)
ShowNotification(m, t) ==
    /\ notification' = [message |-> m, type |-> t]
    /\ timers' = timers + 1

\* a timeout fires: setNotification(null).  All timeouts have the same delay,
\* so they fire in the order they were set: the one that fires is the oldest
\* of the `timers` pending, and the banner shows the notification of the newest
TimerFire ==
    /\ effectPc = "idle"
    /\ timers > 0
    /\ notification' = NoNotification
    /\ timers' = timers - 1
    /\ lastOp' = <<"timer">>
    /\ UNCHANGED <<providerVars, user, currentRoom, roomPasscodes, message, messages,
                   storeVars, inflight, subVars, effectPc, logoutPc, summary,
                   summarizerVars, authVars>>

----------------------------------------------------------------------------
(* The subscription effect, deps [user, currentRoom, loadMessages] *)

AfterCommitSkipsCleanup(userSet) ==
    effectPc' = IF userSet \/ user' # user \/ currentRoom' # currentRoom
                THEN "setup" ELSE "idle"

\* after a commit the effect re-runs iff a dependency changed identity;
\* setUser({...}) always stores a fresh object
AfterCommit(userSet) ==
    effectPc' = IF userSet \/ user' # user \/ currentRoom' # currentRoom
                THEN "cleanup" ELSE "idle"

RunCleanupKeepsListener ==
    /\ effectPc = "cleanup"
    /\ effectPc' = "setup"
    /\ unsubscribe' = NoRoom
    /\ UNCHANGED <<providerVars, user, currentRoom, roomPasscodes, message, messages,
                   storeVars, inflight, listeners, released, doubleRelease, logoutPc,
                   summary, bannerVars, lastOp,
                   summarizerVars, authVars>>

\* return () => unsubscribe()
RunCleanup ==
    /\ effectPc = "cleanup"
    /\ effectPc' = "setup"
    /\ IF unsubscribe = NoRoom
       THEN UNCHANGED <<listeners, released, doubleRelease>>
       ELSE IF listeners[unsubscribe] > 0
            THEN /\ listeners' = [listeners EXCEPT ![unsubscribe] = @ - 1]
                 /\ released' = unsubscribe
                 /\ UNCHANGED doubleRelease
            ELSE /\ doubleRelease' = TRUE
                 /\ UNCHANGED <<listeners, released>>
    /\ unsubscribe' = NoRoom
    /\ UNCHANGED <<providerVars, user, currentRoom, roomPasscodes, message, messages,
                   storeVars, inflight, logoutPc, summary, bannerVars, lastOp,
                   summarizerVars, authVars>>

\* let unsubscribe = () => {}; if (user && currentRoom) unsubscribe = loadMessages()
RunSetup ==
    /\ effectPc = "setup"
    /\ effectPc' = "idle"
    /\ IF user # NoUser /\ currentRoom # NoRoom
       THEN /\ listeners' = [listeners EXCEPT ![currentRoom] = @ + 1]
            /\ unsubscribe' = currentRoom
       ELSE UNCHANGED <<listeners, unsubscribe>>
    /\ UNCHANGED <<providerVars, user, currentRoom, roomPasscodes, message, messages,
                   storeVars, inflight, released, doubleRelease, logoutPc, summary,
                   bannerVars, lastOp,
                   summarizerVars, authVars>>

----------------------------------------------------------------------------
(* loadMessages: the onSnapshot callbacks *)

SnapshotDeliveredAppends(r) ==
    /\ effectPc = "idle"
    /\ listeners[r] > 0
    /\ messages' = messages \o Snapshot(store[r])
    /\ lastOp' = <<"snapshot", r>>
    /\ UNCHANGED <<providerVars, user, currentRoom, roomPasscodes, message, storeVars,
                   inflight, subVars, effectPc, logoutPc, summary, bannerVars,
                   summarizerVars, authVars>>

\* (querySnapshot) => { ...; setMessages(msgs) }
SnapshotDelivered(r) ==
    /\ effectPc = "idle"
    /\ listeners[r] > 0
    /\ messages' = Snapshot(store[r])
    /\ lastOp' = <<"snapshot", r>>
    /\ UNCHANGED <<providerVars, user, currentRoom, roomPasscodes, message, storeVars,
                   inflight, subVars, effectPc, logoutPc, summary, bannerVars,
                   summarizerVars, authVars>>

SnapshotErrorBlanksList(r) ==
    /\ effectPc = "idle"
    /\ listeners[r] > 0
    /\ CanNotify
    /\ messages' = <<>>
    /\ ShowNotification("Failed to load messages", "error")
    /\ lastOp' = <<"snapshotError", r>>
    /\ UNCHANGED <<providerVars, user, currentRoom, roomPasscodes, message, storeVars,
                   inflight, subVars, effectPc, logoutPc, summary,
                   summarizerVars, authVars>>

\* (error) => { console.error(...); showNotification("Failed to load messages", "error") }
SnapshotError(r) ==
    /\ effectPc = "idle"
    /\ listeners[r] > 0
    /\ CanNotify
    /\ ShowNotification("Failed to load messages", "error")
    /\ lastOp' = <<"snapshotError", r>>
    /\ UNCHANGED <<providerVars, user, currentRoom, roomPasscodes, message, messages,
                   storeVars, inflight, subVars, effectPc, logoutPc, summary,
                   summarizerVars, authVars>>

\* another client appends a message to a room
RemoteWrite(r) ==
    /\ effectPc = "idle"
    /\ clock < MaxDocs
    /\ clock' = clock + 1
    /\ store' = [store EXCEPT ![r] = @ \cup
                   {[id |-> clock + 1,
                     data |-> [text |-> <<"y", "o">>, uid |-> "u9",
                               email |-> <<"z", "@", "x">>, nickname |-> <<"Z">>,
                               timestamp |-> clock + 1]]}]
    /\ lastOp' = <<"remoteWrite", r>>
    /\ UNCHANGED <<providerVars, user, currentRoom, roomPasscodes, message, messages,
                   inflight, subVars, effectPc, logoutPc, summary, bannerVars,
                   summarizerVars, authVars>>

----------------------------------------------------------------------------
(* onAuthStateChanged *)

\* the provider signs an account in and the callback suspends at getDoc
AuthSignIn(uid) ==
    /\ effectPc = "idle"
    /\ authUser # uid
    /\ authUser' = uid
    /\ fetching' = fetching \cup {uid}
    /\ lastOp' = <<"signIn", uid, currentRoom>>
    /\ UNCHANGED <<user, currentRoom, roomPasscodes, message, messages, storeVars,
                   inflight, subVars, effectPc, logoutPc, summary, bannerVars,
                   summarizerVars, authVars>>

\* getDoc resolved: setUser({ uid, email, nickname })
ProfileFetched(uid) ==
    /\ effectPc = "idle"
    /\ uid \in fetching
    /\ fetching' = fetching \ {uid}
    /\ user' = [uid |-> uid, email |-> EmailOf(uid), nickname |-> NicknameFor(uid)]
    /\ UNCHANGED currentRoom
    /\ AfterCommit(TRUE)
    /\ lastOp' = <<"profile", uid, currentRoom>>
    /\ UNCHANGED <<authUser, roomPasscodes, message, messages, storeVars, inflight,
                   subVars, logoutPc, summary, bannerVars,
                   summarizerVars, authVars>>

\* getDoc rejected: console.error only
ProfileFetchFailed(uid) ==
    /\ effectPc = "idle"
    /\ uid \in fetching
    /\ fetching' = fetching \ {uid}
    /\ lastOp' = <<"profileError", uid, currentRoom>>
    /\ UNCHANGED <<authUser, user, currentRoom, roomPasscodes, message, messages,
                   storeVars, inflight, subVars, effectPc, logoutPc, summary,
                   bannerVars,
                   summarizerVars, authVars>>

OnSignedOutClearsListOnly ==
    /\ user' = NoUser
    /\ messages' = <<>>
    /\ UNCHANGED currentRoom

OnSignedOutKeepsRoom ==
    /\ user' = NoUser
    /\ UNCHANGED <<messages, currentRoom>>

\* the callback's else branch: setUser(null); setMessages([]); setCurrentRoom(null)
OnSignedOut ==
    /\ user' = NoUser
    /\ messages' = <<>>
    /\ currentRoom' = NoRoom

\* the session ends outside logoutHandler (another tab, a disabled account)
AuthSignOut ==
    /\ effectPc = "idle"
    /\ authUser # NoUid
    /\ authUser' = NoUid
    /\ OnSignedOut
    /\ AfterCommit(FALSE)
    /\ lastOp' = <<"signOut", currentRoom, messages # <<>>>>
    /\ UNCHANGED <<fetching, roomPasscodes, message, storeVars, inflight, subVars,
                   logoutPc, summary, bannerVars,
                   summarizerVars, authVars>>

----------------------------------------------------------------------------
(* The sign-in form and handleAuth *)

\* the account an e-mail address belongs to
UidOf(e) == CHOOSE uid \in Uids : EmailOf(uid) = e

\* everything handleAuth and the form leave alone
sessionVars == <<user, currentRoom, roomPasscodes, message, messages, storeVars,
                 inflight, subVars, effectPc, logoutPc, summary, summarizerVars>>

\* the form's onChange handlers and the Login / Sign Up toggle
TypeEmail(e) ==
    /\ effectPc = "idle" /\ user = NoUser
    /\ email' = e
    /\ lastOp' = <<"typeEmail">>
    /\ UNCHANGED <<providerVars, accounts, profiles, password, nickname, secretKey,
                   isLogin, loading, authPc, authReq, sessionVars, bannerVars>>

TypePassword(pw) ==
    /\ effectPc = "idle" /\ user = NoUser
    /\ password' = pw
    /\ lastOp' = <<"typePassword">>
    /\ UNCHANGED <<providerVars, accounts, profiles, email, nickname, secretKey,
                   isLogin, loading, authPc, authReq, sessionVars, bannerVars>>

TypeNickname(n) ==
    /\ effectPc = "idle" /\ user = NoUser /\ ~isLogin
    /\ nickname' = n
    /\ lastOp' = <<"typeNickname">>
    /\ UNCHANGED <<providerVars, accounts, profiles, email, password, secretKey,
                   isLogin, loading, authPc, authReq, sessionVars, bannerVars>>

TypeSecretKey(k) ==
    /\ effectPc = "idle" /\ user = NoUser /\ ~isLogin
    /\ secretKey' = k
    /\ lastOp' = <<"typeSecretKey">>
    /\ UNCHANGED <<providerVars, accounts, profiles, email, password, nickname,
                   isLogin, loading, authPc, authReq, sessionVars, bannerVars>>

\* onClick={() => setIsLogin(!isLogin)}
toggleIsLogin ==
    /\ effectPc = "idle" /\ user = NoUser
    /\ isLogin' = ~isLogin
    /\ lastOp' = <<"toggleIsLogin">>
    /\ UNCHANGED <<providerVars, accounts, profiles, email, password, nickname,
                   secretKey, loading, authPc, authReq, sessionVars, bannerVars>>

SecretKeyRejectedOnlyWhenEmpty == secretKey = ""

\* secretKey !== process.env.REACT_APP_SECRET_KEY
SecretKeyRejected == secretKey # SECRET_KEY

\* the form's onSubmit, up to its first await; the browser submits only when
\* the required fields are filled in and the submit button is not loading
handleAuth ==
    /\ effectPc = "idle" /\ user = NoUser
    /\ ~loading
    /\ email # <<>> /\ password # ""
    /\ isLogin \/ (nickname # <<>> /\ secretKey # "")
    /\ IF isLogin
       THEN /\ authPc' = "signIn"
            /\ authReq' = [email |-> email, password |-> password, nickname |-> <<>>]
            /\ loading' = TRUE
            /\ lastOp' = <<"handleAuth", "signIn">>
            /\ UNCHANGED bannerVars
       ELSE IF SecretKeyRejected
       THEN /\ CanNotify
            /\ ShowNotification("Invalid secret key", "error")
            /\ loading' = FALSE
            /\ lastOp' = <<"handleAuth", "keyRejected", secretKey>>
            /\ UNCHANGED <<authPc, authReq>>
       ELSE /\ authPc' = "createUser"
            /\ authReq' = [email |-> email, password |-> password, nickname |-> nickname]
            /\ loading' = TRUE
            /\ lastOp' = <<"handleAuth", "createUser">>
            /\ UNCHANGED bannerVars
    /\ UNCHANGED <<providerVars, accounts, profiles, email, password, nickname,
                   secretKey, isLogin, sessionVars>>

\* signInWithEmailAndPassword resolved: the provider has signed the account in
\* and, if that changed the signed-in account, has called the auth callback,
\* which waits at getDoc; then showNotification("Login successful", "success")
SignInResolved ==
    /\ effectPc = "idle"
    /\ authPc = "signIn"
    /\ UidOf(authReq.email) \in accounts
    /\ authReq.password = PasswordOf(UidOf(authReq.email))
    /\ CanNotify
    /\ authUser' = UidOf(authReq.email)
    /\ fetching' = IF authUser # UidOf(authReq.email)
                   THEN fetching \cup {UidOf(authReq.email)} ELSE fetching
    /\ ShowNotification("Login successful", "success")
    /\ loading' = FALSE
    /\ authPc' = "idle"
    /\ lastOp' = <<"handleAuth", "signedIn">>
    /\ UNCHANGED <<accounts, profiles, email, password, nickname, secretKey, isLogin,
                   authReq, sessionVars>>

\* signInWithEmailAndPassword rejected: showNotification(error.message, "error")
SignInRejected ==
    /\ effectPc = "idle"
    /\ authPc = "signIn"
    /\ CanNotify
    /\ ShowNotification("Firebase: Error (auth/invalid-credential).", "error")
    /\ loading' = FALSE
    /\ authPc' = "idle"
    /\ lastOp' = <<"handleAuth", "signInError">>
    /\ UNCHANGED <<providerVars, accounts, profiles, email, password, nickname,
                   secretKey, isLogin, authReq, sessionVars>>

\* createUserWithEmailAndPassword resolved: the account exists and is signed
\* in, the auth callback waits at getDoc, and handleAuth calls setDoc
CreateUserResolved ==
    /\ effectPc = "idle"
    /\ authPc = "createUser"
    /\ UidOf(authReq.email) \notin accounts
    /\ accounts' = accounts \cup {UidOf(authReq.email)}
    /\ authUser' = UidOf(authReq.email)
    /\ fetching' = fetching \cup {UidOf(authReq.email)}
    /\ authPc' = "setDoc"
    /\ lastOp' = <<"handleAuth", "created">>
    /\ UNCHANGED <<profiles, email, password, nickname, secretKey, isLogin, loading,
                   authReq, sessionVars, bannerVars>>

\* createUserWithEmailAndPassword rejected: showNotification(error.message, "error")
CreateUserRejected ==
    /\ effectPc = "idle"
    /\ authPc = "createUser"
    /\ CanNotify
    /\ ShowNotification("Firebase: Error (auth/email-already-in-use).", "error")
    /\ loading' = FALSE
    /\ authPc' = "idle"
    /\ lastOp' = <<"handleAuth", "createError">>
    /\ UNCHANGED <<providerVars, accounts, profiles, email, password, nickname,
                   secretKey, isLogin, authReq, sessionVars>>

\* setDoc resolved: the profile is stored;
\* showNotification("Account created successfully", "success"); the fields are emptied
SetDocResolved ==
    /\ effectPc = "idle"
    /\ authPc = "setDoc"
    /\ CanNotify
    /\ profiles' = [profiles EXCEPT ![UidOf(authReq.email)] = authReq.nickname]
    /\ ShowNotification("Account created successfully", "success")
    /\ email' = <<>>
    /\ password' = ""
    /\ nickname' = <<>>
    /\ secretKey' = ""
    /\ loading' = FALSE
    /\ authPc' = "idle"
    /\ lastOp' = <<"handleAuth", "registered">>
    /\ UNCHANGED <<providerVars, accounts, isLogin, authReq, sessionVars>>

\* setDoc rejected: showNotification(error.message, "error")
SetDocRejected ==
    /\ effectPc = "idle"
    /\ authPc = "setDoc"
    /\ CanNotify
    /\ ShowNotification("Missing or insufficient permissions.", "error")
    /\ loading' = FALSE
    /\ authPc' = "idle"
    /\ lastOp' = <<"handleAuth", "setDocError">>
    /\ UNCHANGED <<providerVars, accounts, profiles, email, password, nickname,
                   secretKey, isLogin, authReq, sessionVars>>

----------------------------------------------------------------------------
(* logoutHandler *)

\* the Logout button (both signed-in views): signOut(auth) is called
LogoutStart ==
    /\ effectPc = "idle"
    /\ user # NoUser
    /\ logoutPc = "idle"
    /\ logoutPc' = "awaitSignOut"
    /\ lastOp' = <<"logout">>
    /\ UNCHANGED <<providerVars, user, currentRoom, roomPasscodes, message, messages,
                   storeVars, inflight, subVars, effectPc, summary, bannerVars,
                   summarizerVars, authVars>>

\* signOut resolved: the auth callback has run if an account was signed in; then
\* showNotification("Logged out successfully", "info"); setCurrentRoom(null)
LogoutSucceed ==
    /\ effectPc = "idle"
    /\ logoutPc = "awaitSignOut"
    /\ CanNotify
    /\ logoutPc' = "idle"
    /\ authUser' = NoUid
    /\ IF authUser # NoUid
       THEN OnSignedOut
       ELSE /\ currentRoom' = NoRoom
            /\ UNCHANGED <<user, messages>>
    /\ ShowNotification("Logged out successfully", "info")
    /\ AfterCommit(FALSE)
    /\ lastOp' = <<"logoutDone", currentRoom, messages # <<>>>>
    /\ UNCHANGED <<fetching, roomPasscodes, message, storeVars, inflight, subVars,
                   summary,
                   summarizerVars, authVars>>

\* signOut rejected: showNotification(error.message, "error")
LogoutFail ==
    /\ effectPc = "idle"
    /\ logoutPc = "awaitSignOut"
    /\ CanNotify
    /\ logoutPc' = "idle"
    /\ ShowNotification("signOut failed", "error")
    /\ lastOp' = <<"logoutError">>
    /\ UNCHANGED <<providerVars, user, currentRoom, roomPasscodes, message, messages,
                   storeVars, inflight, subVars, effectPc, summary,
                   summarizerVars, authVars>>

----------------------------------------------------------------------------
(* Room gate *)

\* the passcode Input's onChange, on the room selection view
TypePasscode(r, p) ==
    /\ effectPc = "idle"
    /\ user # NoUser /\ currentRoom = NoRoom
    /\ roomPasscodes' = [roomPasscodes EXCEPT ![r] = p]
    /\ lastOp' = <<"typePasscode", r>>
    /\ UNCHANGED <<providerVars, user, currentRoom, message, messages, storeVars,
                   inflight, subVars, effectPc, logoutPc, summary, bannerVars,
                   summarizerVars, authVars>>

PasscodeMatchesAnyRoom(r) ==
    \E q \in RoomIds : EnteredPasscode(r) = CHAT_ROOMS[q].passcode

\* enteredPasscode === room.passcode
PasscodeMatches(r) == EnteredPasscode(r) = CHAT_ROOMS[r].passcode

\* the Join Room button of room r, on the room selection view
joinRoom(r) ==
    /\ effectPc = "idle"
    /\ user # NoUser /\ currentRoom = NoRoom
    /\ CanNotify
    /\ IF PasscodeMatches(r)
       THEN /\ currentRoom' = r
            /\ roomPasscodes' = [roomPasscodes EXCEPT ![r] = ""]
            /\ ShowNotification(CHAT_ROOMS[r].joined, "success")
            /\ lastOp' = <<"joinRoom", r, "joined">>
       ELSE /\ ShowNotification("Incorrect passcode. Please try again.", "error")
            /\ lastOp' = <<"joinRoom", r, "refused">>
            /\ UNCHANGED <<currentRoom, roomPasscodes>>
    /\ UNCHANGED user
    /\ AfterCommit(FALSE)
    /\ UNCHANGED <<providerVars, message, messages, storeVars, inflight, subVars,
                   logoutPc, summary,
                   summarizerVars, authVars>>

leaveRoomKeepsSummary ==
    /\ effectPc = "idle"
    /\ user # NoUser /\ currentRoom # NoRoom
    /\ CanNotify
    /\ currentRoom' = NoRoom
    /\ messages' = <<>>
    /\ ShowNotification("Left the chat room", "info")
    /\ UNCHANGED user
    /\ AfterCommit(FALSE)
    /\ lastOp' = <<"leaveRoom", currentRoom, messages # <<>>, summary # NoSummary>>
    /\ UNCHANGED <<providerVars, roomPasscodes, message, storeVars, inflight, subVars,
                   logoutPc, summary, summarizerVars, authVars>>

\* the Back button of the chat view
leaveRoom ==
    /\ effectPc = "idle"
    /\ user # NoUser /\ currentRoom # NoRoom
    /\ CanNotify
    /\ currentRoom' = NoRoom
    /\ messages' = <<>>
    /\ summary' = NoSummary
    /\ summaryRoom' = NoRoom
    /\ ShowNotification("Left the chat room", "info")
    /\ UNCHANGED user
    /\ AfterCommit(FALSE)
    /\ lastOp' = <<"leaveRoom", currentRoom, messages # <<>>, summary # NoSummary>>
    /\ UNCHANGED <<providerVars, roomPasscodes, message, storeVars, inflight, subVars,
                   logoutPc, isGeneratingSummary, geminiApiKey, summaryReqs, authVars>>

----------------------------------------------------------------------------
(* Composer *)

\* the composer Input's onChange, on the chat view; the requests in flight
\* remember that the buffer was edited after they were submitted
TypeMessage(t) ==
    /\ effectPc = "idle"
    /\ user # NoUser /\ currentRoom # NoRoom
    /\ t # message
    /\ message' = t
    /\ inflight' = [i \in 1..Len(inflight) |-> [inflight[i] EXCEPT !.edited = TRUE]]
    /\ lastOp' = <<"typeMessage">>
    /\ UNCHANGED <<providerVars, user, currentRoom, roomPasscodes, messages, storeVars,
                   subVars, effectPc, logoutPc, summary, bannerVars,
                   summarizerVars, authVars>>

SubmitRejectedWithoutTrim == message = <<>> \/ user = NoUser \/ currentRoom = NoRoom

\* if (!message.trim() || !user || !currentRoom) return
SubmitRejected == Trim(message) = <<>> \/ user = NoUser \/ currentRoom = NoRoom

\* the composer form's onSubmit, up to `await addDoc(...)`
submitHandler ==
    /\ effectPc = "idle"
    /\ IF SubmitRejected
       THEN /\ lastOp' = <<"submit", "rejected">>
            /\ UNCHANGED inflight
       ELSE /\ Len(inflight) < MaxInFlight
            /\ inflight' = Append(inflight,
                   [room |-> currentRoom, text |-> message, uid |-> user.uid,
                    email |-> user.email, nickname |-> user.nickname,
                    edited |-> FALSE])
            /\ lastOp' = <<"submit", "sent">>
    /\ UNCHANGED <<providerVars, user, currentRoom, roomPasscodes, message, messages,
                   storeVars, subVars, effectPc, logoutPc, summary, bannerVars,
                   summarizerVars, authVars>>

\* addDoc resolved: the store holds the record; setMessage("")
WriteAcked(i) ==
    /\ effectPc = "idle"
    /\ i \in 1..Len(inflight)
    /\ clock < MaxDocs
    /\ clock' = clock + 1
    /\ store' = [store EXCEPT ![inflight[i].room] = @ \cup
                   {[id |-> clock + 1,
                     data |-> [text |-> inflight[i].text, uid |-> inflight[i].uid,
                               email |-> inflight[i].email,
                               nickname |-> inflight[i].nickname,
                               timestamp |-> clock + 1]]}]
    /\ inflight' = RemoveAt(inflight, i)
    /\ message' = <<>>
    /\ lastOp' = <<"submit", "acked">>
    /\ UNCHANGED <<providerVars, user, currentRoom, roomPasscodes, messages, subVars,
                   effectPc, logoutPc, summary, bannerVars,
                   summarizerVars, authVars>>

\* addDoc rejected: showNotification("Failed to send message. Please try again.", "error")
WriteFailed(i) ==
    /\ effectPc = "idle"
    /\ i \in 1..Len(inflight)
    /\ CanNotify
    /\ inflight' = RemoveAt(inflight, i)
    /\ ShowNotification("Failed to send message. Please try again.", "error")
    /\ lastOp' = <<"submit", "failed", inflight[i].text, inflight[i].edited, clock>>
    /\ UNCHANGED <<providerVars, user, currentRoom, roomPasscodes, message, messages,
                   storeVars, subVars, effectPc, logoutPc, summary,
                   summarizerVars, authVars>>

----------------------------------------------------------------------------
(* Summarizer *)

\* the records other clients may leave in a room: without text, without
\* nickname, with a null timestamp
PartialRecords ==
    {[text |-> <<>>, nickname |-> <<"Z">>, stamped |-> TRUE],
     [text |-> <<"y", "o">>, nickname |-> <<>>, stamped |-> TRUE],
     [text |-> <<"y", "o">>, nickname |-> <<"Z">>, stamped |-> FALSE]}

\* another client appends a record that lacks a field
RemoteWritePartial(r, rec) ==
    /\ effectPc = "idle"
    /\ clock < MaxDocs
    /\ clock' = clock + 1
    /\ store' = [store EXCEPT ![r] = @ \cup
                   {[id |-> clock + 1,
                     data |-> [text |-> rec.text, uid |-> "u9",
                               email |-> <<"z", "@", "x">>, nickname |-> rec.nickname,
                               timestamp |-> IF rec.stamped THEN clock + 1
                                             ELSE NoTimestamp]]}]
    /\ lastOp' = <<"remoteWrite", r>>
    /\ UNCHANGED <<providerVars, user, currentRoom, roomPasscodes, message, messages,
                   inflight, subVars, effectPc, logoutPc, summary, summarizerVars,
                   bannerVars, authVars>>

SummaryControlEnabledIgnoresLoading ==
    /\ user # NoUser /\ currentRoom # NoRoom
    /\ messages # <<>>

\* the Summary button is rendered in the chat view and accepts a click:
\* isLoading={isGeneratingSummary}, isDisabled={messages.length === 0}
SummaryControlEnabled ==
    /\ user # NoUser /\ currentRoom # NoRoom
    /\ ~isGeneratingSummary
    /\ messages # <<>>

ApiKeyMissingNotChecked == FALSE

\* !geminiApiKey
ApiKeyMissing == geminiApiKey = NoKey

NoValidMessagesChecksRawList(chatHistory) == messages = <<>>

\* !chatHistory.trim()
NoValidMessages(chatHistory) == Trim(chatHistory) = <<>>

\* generateSummary up to `await model.generateContent(prompt)`: a click on the
\* Summary button, or a call with an empty list, which the button does not allow
generateSummary ==
    /\ effectPc = "idle"
    /\ SummaryControlEnabled \/ messages = <<>>
    /\ IF messages = <<>>
       THEN /\ CanNotify
            /\ ShowNotification("No messages available to summarize", "error")
            /\ lastOp' = <<"summarize", "empty">>
            /\ UNCHANGED <<summary, summaryRoom, isGeneratingSummary, summaryReqs>>
       ELSE IF ApiKeyMissing
       THEN /\ CanNotify
            /\ ShowNotification("Gemini API key not configured", "error")
            /\ lastOp' = <<"summarize", "nokey">>
            /\ UNCHANGED <<summary, summaryRoom, isGeneratingSummary, summaryReqs>>
       ELSE IF NoValidMessages(ChatHistory(messages))
       THEN /\ CanNotify
            /\ summary' = NoSummary
            /\ summaryRoom' = NoRoom
            /\ isGeneratingSummary' = FALSE
            /\ ShowNotification("No valid messages found to summarize", "error")
            /\ lastOp' = <<"summarize", "novalid">>
            /\ UNCHANGED summaryReqs
       ELSE /\ Len(summaryReqs) < MaxSummaryReqs
            /\ summary' = NoSummary
            /\ summaryRoom' = NoRoom
            /\ isGeneratingSummary' = TRUE
            /\ summaryReqs' = Append(summaryReqs,
                   [room |-> currentRoom, chatHistory |-> ChatHistory(messages)])
            /\ lastOp' = <<"summarize", "requested", messages>>
            /\ UNCHANGED bannerVars
    /\ UNCHANGED <<providerVars, user, currentRoom, roomPasscodes, message, messages,
                   storeVars, inflight, subVars, effectPc, logoutPc, geminiApiKey, authVars>>

\* generateContent resolved: setSummary(summaryText); showNotification(...);
\* finally setIsGeneratingSummary(false)
SummaryResolved(i) ==
    /\ effectPc = "idle"
    /\ i \in 1..Len(summaryReqs)
    /\ CanNotify
    /\ summaryReqs' = RemoveAt(summaryReqs, i)
    /\ summary' = GeneratedText(summaryReqs[i].chatHistory)
    /\ summaryRoom' = summaryReqs[i].room
    /\ ShowNotification("Summary generated successfully", "success")
    /\ isGeneratingSummary' = FALSE
    /\ lastOp' = <<"summarize", "done", summaryReqs[i].room, currentRoom>>
    /\ UNCHANGED <<providerVars, user, currentRoom, roomPasscodes, message, messages,
                   storeVars, inflight, subVars, effectPc, logoutPc, geminiApiKey, authVars>>

SummaryFailedKeepsFlag(i, err) ==
    /\ effectPc = "idle"
    /\ i \in 1..Len(summaryReqs)
    /\ CanNotify
    /\ summaryReqs' = RemoveAt(summaryReqs, i)
    /\ ShowNotification(Classify(err), "error")
    /\ lastOp' = <<"summarize", "failed", err>>
    /\ UNCHANGED <<providerVars, user, currentRoom, roomPasscodes, message, messages,
                   storeVars, inflight, subVars, effectPc, logoutPc, summary,
                   summaryRoom, isGeneratingSummary, geminiApiKey, authVars>>

\* generateContent rejected: showNotification(errorMessage, "error");
\* finally setIsGeneratingSummary(false)
SummaryFailed(i, err) ==
    /\ effectPc = "idle"
    /\ i \in 1..Len(summaryReqs)
    /\ CanNotify
    /\ summaryReqs' = RemoveAt(summaryReqs, i)
    /\ ShowNotification(Classify(err), "error")
    /\ isGeneratingSummary' = FALSE
    /\ lastOp' = <<"summarize", "failed", err>>
    /\ UNCHANGED <<providerVars, user, currentRoom, roomPasscodes, message, messages,
                   storeVars, inflight, subVars, effectPc, logoutPc, summary,
                   summaryRoom, geminiApiKey, authVars>>

\* the Close buttons of the summary overlay: setSummary(null)
closeSummary ==
    /\ effectPc = "idle"
    /\ summary # NoSummary
    /\ summary' = NoSummary
    /\ summaryRoom' = NoRoom
    /\ lastOp' = <<"closeSummary">>
    /\ UNCHANGED <<providerVars, user, currentRoom, roomPasscodes, message, messages,
                   storeVars, inflight, subVars, effectPc, logoutPc,
                   isGeneratingSummary, geminiApiKey, summaryReqs, bannerVars, authVars>>

\* the Copy button of the summary overlay
copySummary ==
    /\ effectPc = "idle"
    /\ summary # NoSummary
    /\ CanNotify
    /\ ShowNotification("Summary copied to clipboard", "success")
    /\ lastOp' = <<"copySummary">>
    /\ UNCHANGED <<providerVars, user, currentRoom, roomPasscodes, message, messages,
                   storeVars, inflight, subVars, effectPc, logoutPc, summary,
                   summarizerVars, authVars>>

----------------------------------------------------------------------------
Init ==
    /\ authUser = NoUid
    /\ fetching = {}
    /\ accounts = {"u1", "u2"}
    /\ profiles = [uid \in Uids |-> IF uid = "u1" THEN <<"A", "l">> ELSE <<>>]
    /\ user = NoUser
    /\ email = <<>>
    /\ password = ""
    /\ nickname = <<>>
    /\ secretKey = ""
    /\ isLogin = TRUE
    /\ loading = FALSE
    /\ authPc = "idle"
    /\ authReq = NoAuthReq
    /\ currentRoom = NoRoom
    /\ roomPasscodes = [r \in RoomIds |-> NoEntry]
    /\ message = <<>>
    /\ messages = <<>>
    /\ store = [r \in RoomIds |-> {}]
    /\ clock = 0
    /\ inflight = <<>>
    /\ listeners = [r \in RoomIds |-> 0]
    /\ unsubscribe = NoRoom
    /\ effectPc = "idle"
    /\ released = NoRoom
    /\ doubleRelease = FALSE
    /\ logoutPc = "idle"
    /\ summary = NoSummary
    /\ summaryRoom = NoRoom
    /\ isGeneratingSummary = FALSE
    /\ geminiApiKey \in GeminiApiKeys
    /\ summaryReqs = <<>>
    /\ notification = NoNotification
    /\ timers = 0
    /\ lastOp = <<>>

\* the whole client: every handler and callback, every input
Next ==
    \/ \E uid \in Uids : AuthSignIn(uid)
    \/ \E uid \in Uids : ProfileFetched(uid)
    \/ \E uid \in Uids : ProfileFetchFailed(uid)
    \/ AuthSignOut
    \/ RunCleanup
    \/ RunSetup
    \/ LogoutStart
    \/ LogoutSucceed
    \/ LogoutFail
    \/ \E r \in RoomIds, p \in Passcodes : TypePasscode(r, p)
    \/ \E r \in RoomIds : joinRoom(r)
    \/ leaveRoom
    \/ \E t \in Texts : TypeMessage(t)
    \/ submitHandler
    \/ \E i \in 1..MaxInFlight : WriteAcked(i)
    \/ \E i \in 1..MaxInFlight : WriteFailed(i)
    \/ \E r \in RoomIds : SnapshotDelivered(r)
    \/ \E r \in RoomIds : SnapshotError(r)
    \/ \E r \in RoomIds : RemoteWrite(r)
    \/ \E r \in RoomIds, rec \in PartialRecords : RemoteWritePartial(r, rec)
    \/ generateSummary
    \/ \E i \in 1..MaxSummaryReqs : SummaryResolved(i)
    \/ \E i \in 1..MaxSummaryReqs, err \in ProviderErrors : SummaryFailed(i, err)
    \/ closeSummary
    \/ copySummary
    \/ \E uid \in Uids : TypeEmail(EmailOf(uid))
    \/ \E uid \in Uids : \E pw \in {PasswordOf(uid), "wrong"} : TypePassword(pw)
    \/ \E n \in Nicknames : TypeNickname(n)
    \/ \E k \in SecretKeys : TypeSecretKey(k)
    \/ toggleIsLogin
    \/ handleAuth
    \/ SignInResolved
    \/ SignInRejected
    \/ CreateUserResolved
    \/ CreateUserRejected
    \/ SetDocResolved
    \/ SetDocRejected
    \/ TimerFire

Spec == Init /\ [][Next]_vars

\* a deployment with the summarization credential configured
InitConfigured == Init /\ geminiApiKey # NoKey

\* the room gate with every passcode input; the chat view is entered and left
\* but nothing is sent
NextGate ==
    \/ \E uid \in {"u1"} : AuthSignIn(uid)
    \/ \E uid \in {"u1"} : ProfileFetched(uid)
    \/ AuthSignOut
    \/ RunCleanup
    \/ RunSetup
    \/ \E r \in RoomIds, p \in Passcodes : TypePasscode(r, p)
    \/ \E r \in RoomIds : joinRoom(r)
    \/ leaveRoom
    \/ TimerFire

SpecGate == InitConfigured /\ [][NextGate]_vars

\* the rooms whose passcode the user knows
KnownRooms == {"general", "tech"}

\* the session and its subscription: one account, rooms entered with the right
\* passcode, messages written by other clients
NextSession ==
    \/ \E uid \in {"u1"} : AuthSignIn(uid)
    \/ \E uid \in {"u1"} : ProfileFetched(uid)
    \/ \E uid \in {"u1"} : ProfileFetchFailed(uid)
    \/ AuthSignOut
    \/ RunCleanup
    \/ RunSetup
    \/ \E r \in KnownRooms : TypePasscode(r, CHAT_ROOMS[r].passcode)
    \/ \E r \in KnownRooms : joinRoom(r)
    \/ leaveRoom
    \/ \E r \in KnownRooms : SnapshotDelivered(r)
    \/ \E r \in KnownRooms : SnapshotError(r)
    \/ \E r \in KnownRooms : RemoteWrite(r)
    \/ TimerFire
    \/ LogoutStart
    \/ LogoutSucceed
    \/ LogoutFail

SpecSession == InitConfigured /\ [][NextSession]_vars

\* the composer in one room: one account, every text, writes acknowledged and
\* refused, the session ended from outside while a write is in flight
NextComposer ==
    \/ \E uid \in {"u2"} : AuthSignIn(uid)
    \/ \E uid \in {"u2"} : ProfileFetched(uid)
    \/ AuthSignOut
    \/ RunCleanup
    \/ RunSetup
    \/ \E r \in {"general"} : TypePasscode(r, CHAT_ROOMS[r].passcode)
    \/ \E r \in {"general"} : joinRoom(r)
    \/ leaveRoom
    \/ \E t \in Texts : TypeMessage(t)
    \/ submitHandler
    \/ \E i \in 1..MaxInFlight : WriteAcked(i)
    \/ \E i \in 1..MaxInFlight : WriteFailed(i)
    \/ TimerFire

SpecComposer == InitConfigured /\ [][NextComposer]_vars

\* the summarizer in one room: records with and without text, nickname and
\* timestamp, requests answered and refused, with and without a credential
NextSummarizer ==
    \/ \E uid \in {"u1"} : AuthSignIn(uid)
    \/ \E uid \in {"u1"} : ProfileFetched(uid)
    \/ AuthSignOut
    \/ RunCleanup
    \/ RunSetup
    \/ \E r \in {"general"} : TypePasscode(r, CHAT_ROOMS[r].passcode)
    \/ \E r \in {"general"} : joinRoom(r)
    \/ leaveRoom
    \/ \E r \in {"general"} : RemoteWrite(r)
    \/ \E r \in {"general"}, rec \in PartialRecords : RemoteWritePartial(r, rec)
    \/ \E r \in {"general"} : SnapshotDelivered(r)
    \/ generateSummary
    \/ \E i \in 1..MaxSummaryReqs : SummaryResolved(i)
    \/ \E i \in 1..MaxSummaryReqs, err \in ProviderErrors : SummaryFailed(i, err)
    \/ closeSummary
    \/ copySummary
    \/ TimerFire

SpecSummarizer == Init /\ [][NextSummarizer]_vars

\* the sign-in form: a new account registers with every secret key and signs
\* in, every call answered or refused
NextAuth ==
    \/ \E uid \in {"u3"} : TypeEmail(EmailOf(uid))
    \/ \E pw \in {PasswordOf("u3")} : TypePassword(pw)
    \/ \E n \in Nicknames : TypeNickname(n)
    \/ \E k \in SecretKeys : TypeSecretKey(k)
    \/ toggleIsLogin
    \/ handleAuth
    \/ SignInResolved
    \/ SignInRejected
    \/ CreateUserResolved
    \/ CreateUserRejected
    \/ SetDocResolved
    \/ SetDocRejected
    \/ \E uid \in {"u3"} : ProfileFetched(uid)
    \/ \E uid \in {"u3"} : ProfileFetchFailed(uid)
    \/ RunCleanup
    \/ RunSetup
    \/ AuthSignOut
    \/ TimerFire

SpecAuth == InitConfigured /\ [][NextAuth]_vars

\* the endpoint settles an outstanding request, with an answer or a failure
SummarySettled ==
    \E i \in 1..MaxSummaryReqs :
        \/ SummaryResolved(i)
        \/ \E err \in ProviderErrors : SummaryFailed(i, err)

\* the summarizer's requests in one room, from their start to their end
NextSummarizerLive ==
    \/ \E uid \in {"u1"} : AuthSignIn(uid)
    \/ \E uid \in {"u1"} : ProfileFetched(uid)
    \/ RunCleanup
    \/ RunSetup
    \/ \E r \in {"general"} : TypePasscode(r, CHAT_ROOMS[r].passcode)
    \/ \E r \in {"general"} : joinRoom(r)
    \/ leaveRoom
    \/ \E r \in {"general"} : RemoteWrite(r)
    \/ \E r \in {"general"}, rec \in {x \in PartialRecords : x.text = <<>>} :
           RemoteWritePartial(r, rec)
    \/ \E r \in {"general"} : SnapshotDelivered(r)
    \/ generateSummary
    \/ SummarySettled
    \/ TimerFire

\* timeouts fire, the effects of a commit run, and the endpoint settles every
\* request it is given; a request can be settled whenever no effect is pending
\* and a timer slot is free, which recurs, hence the strong fairness
SpecSummarizerLive ==
    /\ Init /\ [][NextSummarizerLive]_vars
    /\ WF_vars(TimerFire)
    /\ WF_vars(RunCleanup)
    /\ WF_vars(RunSetup)
    /\ SF_vars(SummarySettled)

----------------------------------------------------------------------------
(* Room gate: claims *)

\* what the passcode field of room r holds, as a string
Typed(r) == IF roomPasscodes[r] = NoEntry THEN "" ELSE roomPasscodes[r]

\* C1: for every room R and entered passcode p, joinRoom(R) sets the current
\* room to R iff p equals R's configured passcode; on a mismatch the current
\* room stays unset and one error notification is shown.
C1_JoinIffPasscode ==
    [][\A r \in RoomIds : joinRoom(r) =>
          /\ (currentRoom' = r) <=> (Typed(r) = CHAT_ROOMS[r].passcode)
          /\ Typed(r) # CHAT_ROOMS[r].passcode =>
                /\ currentRoom' = NoRoom
                /\ notification' = [message |-> "Incorrect passcode. Please try again.",
                                    type |-> "error"]
                /\ timers' = timers + 1]_vars

\* joinRoom("general") was refused although the field held another room's passcode
C1_Witness ==
    /\ lastOp = <<"joinRoom", "general", "refused">>
    /\ roomPasscodes["general"] = CHAT_ROOMS["tech"].passcode
    /\ currentRoom = NoRoom
    /\ notification.type = "error"

----------------------------------------------------------------------------
(* Subscription lifecycle: claims *)

\* C2: the local message list is non-empty only if a room is active and a live
\* subscription for that room is attached; at most one subscription exists.
C2_ListOnlyWhileSubscribed ==
    /\ TotalListeners <= 1
    /\ (effectPc = "idle" /\ messages # <<>>) =>
           (currentRoom # NoRoom /\ listeners[currentRoom] = 1)

\* C3: entering room A and then room B leaves exactly one subscription, A's
\* being released before B's attaches, and a snapshot is delivered into the
\* local list only by the subscription of the current room.
C3_OneSubscriptionPerRoom ==
    [][/\ TotalListeners' <= 1
       /\ (RunSetup /\ listeners' # listeners) =>
              (TotalListeners = 0 /\ listeners'[currentRoom] = 1)
       /\ \A r \in RoomIds : SnapshotDelivered(r) =>
              (r = currentRoom /\ \A q \in RoomIds \ {r} : listeners[q] = 0)]_vars

\* room "general" was left, "tech" is subscribed and has delivered its snapshot
C3_Witness ==
    /\ released = "general"
    /\ currentRoom = "tech"
    /\ listeners["tech"] = 1 /\ listeners["general"] = 0
    /\ store["general"] # {}
    /\ lastOp = <<"snapshot", "tech">>
    /\ messages = Snapshot(store["tech"]) /\ messages # <<>>

C8_HandleReleasedOnce ==
    /\ TotalListeners <= 1
    /\ ~doubleRelease
    /\ effectPc = "setup" => (TotalListeners = 0 /\ unsubscribe = NoRoom)
    /\ effectPc = "idle" =>
           IF user # NoUser /\ currentRoom # NoRoom
           THEN listeners[currentRoom] = 1 /\ unsubscribe = currentRoom
           ELSE TotalListeners = 0 /\ unsubscribe = NoRoom

\* the handle of room "general" was released after a sign-out in that room
C8_Witness ==
    /\ lastOp = <<"signOut", "general", TRUE>>
    /\ effectPc = "idle"
    /\ released = "general"
    /\ TotalListeners = 0 /\ unsubscribe = NoRoom

\* C9: a live-query delivery error leaves the local message list as it was and
\* shows exactly one error notification.
C9_DeliveryErrorKeepsList ==
    [][\A r \in RoomIds : SnapshotError(r) =>
          /\ messages' = messages
          /\ notification' = [message |-> "Failed to load messages", type |-> "error"]
          /\ timers' = timers + 1]_vars

\* a delivery error happened while the list showed messages
C9_Witness ==
    /\ lastOp = <<"snapshotError", "general">>
    /\ messages # <<>>
    /\ notification = [message |-> "Failed to load messages", type |-> "error"]

\* C10: every delivered snapshot replaces the local list in full: the list
\* equals the documents of the room, one entry per document, in ascending
\* timestamp order.
C10_SnapshotReplacesList ==
    [][\A r \in RoomIds : SnapshotDelivered(r) =>
          /\ Len(messages') = Cardinality(store[r])
          /\ \A i \in 1..Len(messages') : \E d \in store[r] :
                 /\ messages'[i].id = d.id
                 /\ messages'[i].text = d.data.text
                 /\ messages'[i].uid = d.data.uid
                 /\ messages'[i].email = d.data.email
                 /\ messages'[i].nickname = d.data.nickname
                 /\ messages'[i].timestamp = d.data.timestamp
          /\ \A i, j \in 1..Len(messages') :
                 i < j => messages'[i].timestamp < messages'[j].timestamp]_vars

\* a snapshot of two documents replaced the list
C10_Witness ==
    /\ lastOp = <<"snapshot", "general">>
    /\ Len(messages) = 2
    /\ messages[1].timestamp < messages[2].timestamp

----------------------------------------------------------------------------
(* Composer: claims *)

\* C4: a send of a text that is non-empty after trimming, by a signed-in user
\* in an active room, writes exactly one record attributed to that user into
\* that room's collection, and the program empties the buffer only after
\* that write has been acknowledged: not at submit time, and not while
\* another submitted write is still unacknowledged.
C4_SendWritesOneRecord ==
    [][/\ (submitHandler /\ Trim(message) # <<>> /\ user # NoUser /\ currentRoom # NoRoom) =>
              /\ message' = message /\ store' = store
              /\ inflight' = Append(inflight,
                     [room |-> currentRoom, text |-> message, uid |-> user.uid,
                      email |-> user.email, nickname |-> user.nickname,
                      edited |-> FALSE])
       /\ \A i \in 1..Len(inflight) : WriteAcked(i) =>
              /\ \E d \in store'[inflight[i].room] :
                     /\ d \notin store[inflight[i].room]
                     /\ store' = [store EXCEPT ![inflight[i].room] = @ \cup {d}]
                     /\ d.data.text = inflight[i].text
                     /\ d.data.uid = inflight[i].uid
                     /\ d.data.email = inflight[i].email
                     /\ d.data.nickname = inflight[i].nickname
              /\ message' = <<>>
       /\ store' # store => Len(inflight') = Len(inflight) - 1
       /\ (message # <<>> /\ message' = <<>> /\ ~TypeMessage(<<>>)) =>
              (Len(inflight') = Len(inflight) - 1 /\ clock' = clock + 1 /\ inflight' = <<>>)]_vars

\* C5: send is a no-op when the text is empty or blank, when no user is signed
\* in, or when no room is active: nothing is written, the buffer is unchanged.
C5_RejectedSendIsNoOp ==
    [][(submitHandler /\ (Trim(message) = <<>> \/ user = NoUser \/ currentRoom = NoRoom)) =>
          UNCHANGED <<store, clock, inflight, message, messages>>]_vars

\* a blank text was submitted in a room and nothing was sent
C5_Witness ==
    /\ lastOp = <<"submit", "rejected">>
    /\ message = <<" ">>
    /\ user # NoUser /\ currentRoom # NoRoom
    /\ inflight = <<>> /\ clock = 0

\* C6: when a message write fails (and the user has not edited the buffer
\* since submitting it), the buffer still holds the submitted text, an error
\* notification is shown and the failed write added no record.
C6_FailedSendKeepsText ==
    (Len(lastOp) = 5 /\ lastOp[2] = "failed" /\ lastOp[4] = FALSE) =>
        /\ message = lastOp[3]
        /\ notification = [message |-> "Failed to send message. Please try again.",
                           type |-> "error"]
        /\ clock = lastOp[5]

----------------------------------------------------------------------------
(* Summarizer: claims *)

\* C11: summarize with an empty local list, or without a configured
\* credential, shows an error notification, sends no request to the
\* summarization endpoint and leaves the summary and the in-flight flag as
\* they were.
C11_SummarizeRejectedEarly ==
    [][(generateSummary /\ (messages = <<>> \/ geminiApiKey = NoKey)) =>
          /\ summaryReqs' = summaryReqs
          /\ summary' = summary
          /\ isGeneratingSummary' = isGeneratingSummary
          /\ timers' = timers + 1
          /\ notification' =
                 [message |-> IF messages = <<>>
                              THEN "No messages available to summarize"
                              ELSE "Gemini API key not configured",
                  type |-> "error"]]_vars

\* the Summary button was clicked on a list of messages in a deployment
\* without a credential, and no request was made
C11_Witness ==
    /\ lastOp = <<"summarize", "nokey">>
    /\ geminiApiKey = NoKey
    /\ messages # <<>>
    /\ summaryReqs = <<>> /\ ~isGeneratingSummary
    /\ notification = [message |-> "Gemini API key not configured", type |-> "error"]

\* C12: at most one summarization request is outstanding at any time, and
\* while one is outstanding the in-flight flag is set, so that the Summary
\* button cannot start another.
C12_OneSummaryRequest ==
    /\ Len(summaryReqs) <= 1
    /\ summaryReqs # <<>> => isGeneratingSummary

\* a request is outstanding while the chat view shows a non-empty list
C12_Witness ==
    /\ Len(summaryReqs) = 1
    /\ effectPc = "idle"
    /\ user # NoUser /\ currentRoom # NoRoom /\ messages # <<>>
    /\ isGeneratingSummary

\* the positions of the list whose message has both a text and a nickname
ValidPositions(msgs) ==
    {i \in 1..Len(msgs) : msgs[i].text # <<>> /\ msgs[i].nickname # <<>>}

\* the position of the k-th such message
KthValid(msgs, k) ==
    CHOOSE i \in ValidPositions(msgs) :
        Cardinality({j \in ValidPositions(msgs) : j <= i}) = k

\* the lines of a text: the pieces between its line breaks
RECURSIVE SplitLines(_)
SplitLines(t) ==
    IF \A i \in 1..Len(t) : t[i] # "\n" THEN <<t>>
    ELSE LET b == CHOOSE i \in 1..Len(t) :
                      t[i] = "\n" /\ \A j \in 1..(i - 1) : t[j] # "\n"
         IN  <<SubSeq(t, 1, b - 1)>> \o SplitLines(SubSeq(t, b + 1, Len(t)))

\* C13: the transcript sent with a request has one line per message of the
\* local list that has both text and nickname, in the order of the list, each
\* line "[<formatted timestamp or Unknown time>] <nickname>: <text>"; the
\* other messages contribute no line.
C13_TranscriptOfValidMessages ==
    [][(generateSummary /\ summaryReqs' # summaryReqs) =>
          LET h     == summaryReqs'[Len(summaryReqs')].chatHistory
              lines == SplitLines(h)
              n     == Cardinality(ValidPositions(messages))
          IN  /\ n > 0
              /\ Len(lines) = n
              /\ \A k \in 1..n :
                     LET m == messages[KthValid(messages, k)]
                     IN  lines[k] =
                             <<"[">>
                             \o (IF m.timestamp = NoTimestamp THEN UnknownTime
                                 ELSE FormatTime(m.timestamp))
                             \o <<"]", " ">> \o m.nickname \o <<":", " ">> \o m.text]_vars

\* a request was made from a list of two messages of which the first has no
\* nickname
C13_Witness ==
    /\ Len(lastOp) = 3 /\ lastOp[2] = "requested"
    /\ Len(lastOp[3]) = 2
    /\ lastOp[3][1].nickname = <<>>
    /\ lastOp[3][2].text # <<>> /\ lastOp[3][2].nickname # <<>>
    /\ Len(summaryReqs) = 1
    /\ Len(SplitLines(summaryReqs[1].chatHistory)) = 1

\* C14: when the list is non-empty but no message has both text and
\* nickname, summarize shows the "no valid messages" error, which is neither
\* the empty-list error nor the generic failure, sends no request and sets no
\* summary.
C14_NoValidMessages ==
    [][(generateSummary /\ messages # <<>> /\ geminiApiKey # NoKey
            /\ ValidPositions(messages) = {}) =>
          /\ summaryReqs' = summaryReqs
          /\ summary' = NoSummary
          /\ timers' = timers + 1
          /\ notification'.type = "error"
          /\ notification'.message = "No valid messages found to summarize"
          /\ notification'.message \notin
                 {"No messages available to summarize", "Failed to generate summary"}]_vars

\* the Summary button was clicked on a list whose only message has no text
C14_Witness ==
    /\ lastOp = <<"summarize", "novalid">>
    /\ Len(messages) = 1 /\ messages[1].text = <<>>
    /\ summaryReqs = <<>> /\ summary = NoSummary
    /\ notification.message = "No valid messages found to summarize"

\* C15: leaveRoom leaves no current room, an empty message list and no summary.
C15_LeaveRoomClears ==
    [][leaveRoom =>
          (currentRoom' = NoRoom /\ messages' = <<>> /\ summary' = NoSummary)]_vars

\* a room that showed messages and a summary was left
C15_Witness ==
    /\ lastOp = <<"leaveRoom", "general", TRUE, TRUE>>
    /\ currentRoom = NoRoom /\ messages = <<>> /\ summary = NoSummary

\* the markers the catch block looks for, and the message of each
Markers == {"API_KEY_INVALID", "QUOTA_EXCEEDED", "BLOCKED"}

MarkerMessage(m) ==
    CASE m = "API_KEY_INVALID" -> "Invalid Gemini API key"
      [] m = "QUOTA_EXCEEDED" -> "API quota exceeded. Please try again later."
      [] m = "BLOCKED" -> "Content was blocked by safety filters"

GenericMessage == "Failed to generate summary"

\* C19: a failed request shows exactly one error notification and sets no
\* summary; its message is the generic one when the provider message contains
\* no marker, and otherwise the message of a marker it contains; the four
\* messages are distinct.
C19_FailureClassified ==
    [][\A i \in 1..Len(summaryReqs), err \in ProviderErrors : SummaryFailed(i, err) =>
          LET found == {m \in Markers : \E k \in 1..Len(err) : err[k] = m}
          IN  /\ timers' = timers + 1
              /\ notification'.type = "error"
              /\ found = {} => notification'.message = GenericMessage
              /\ found # {} => \E m \in found : notification'.message = MarkerMessage(m)
              /\ Cardinality({MarkerMessage(m) : m \in Markers} \cup {GenericMessage}) = 4
              /\ summary' = NoSummary
              /\ Len(summaryReqs') = Len(summaryReqs) - 1]_vars

\* a request failed with a quota error whose message starts with other words
C19_Witness ==
    /\ lastOp = <<"summarize", "failed", <<"429", "QUOTA_EXCEEDED">>>>
    /\ notification = [message |-> "API quota exceeded. Please try again later.",
                       type |-> "error"]
    /\ summary = NoSummary /\ summaryReqs = <<>>

\* C20: whenever a summary is displayed a room is active and the summary was
\* generated from the messages of that room.
C20_SummaryOfCurrentRoom ==
    summary # NoSummary => (currentRoom # NoRoom /\ summaryRoom = currentRoom)

----------------------------------------------------------------------------
(* Notifications: claims *)

\* C18: a notification stays displayed until its own interval has elapsed or
\* a newer one replaces it: a timeout that removes a displayed notification
\* is the timeout set for that notification, which is the newest one, never
\* the timeout of an earlier notification.
C18_DismissedByOwnTimer ==
    [][(TimerFire /\ notification # NoNotification) => timers = 1]_vars

----------------------------------------------------------------------------
(* Sign-in form and failures: claims *)

\* C16: register with a secret key that differs from the configured master
\* value is rejected: no account is created (no call to the identity provider
\* is made), no profile document is written, the session user stays absent and
\* an error notification is shown.
C16_RegisterNeedsSecretKey ==
    [][(handleAuth /\ ~isLogin /\ secretKey # SECRET_KEY) =>
          /\ accounts' = accounts
          /\ profiles' = profiles
          /\ authUser' = authUser
          /\ authPc' = "idle" /\ authPc = "idle"
          /\ user' = NoUser
          /\ timers' = timers + 1
          /\ notification' = [message |-> "Invalid secret key", type |-> "error"]]_vars

\* Sign Up was submitted with a key one character short of the master value
C16_Witness ==
    /\ lastOp = <<"handleAuth", "keyRejected", "s3cre">>
    /\ ~isLogin /\ nickname # <<>> /\ email = EmailOf("u3")
    /\ accounts = {"u1", "u2"} /\ profiles["u3"] = <<>>
    /\ user = NoUser /\ authPc = "idle"
    /\ notification = [message |-> "Invalid secret key", type |-> "error"]

\* a step in which an external operation fails
ExternalFailure ==
    \/ SignInRejected
    \/ CreateUserRejected
    \/ SetDocRejected
    \/ LogoutFail
    \/ \E uid \in Uids : ProfileFetchFailed(uid)
    \/ \E i \in 1..Len(inflight) : WriteFailed(i)
    \/ \E r \in RoomIds : SnapshotError(r)
    \/ \E i \in 1..Len(summaryReqs), err \in ProviderErrors : SummaryFailed(i, err)

\* C17: every failure of an external operation (sign-in, registration,
\* sign-out, profile read on sign-in, message write, live-query delivery,
\* summarization) shows a notification, and leaves the session user and the
\* current room, hence the screen, as they were.
C17_EveryFailureNotifies ==
    [][ExternalFailure =>
          /\ notification' # NoNotification
          /\ notification'.type = "error"
          /\ timers' = timers + 1
          /\ user' = user /\ currentRoom' = currentRoom]_vars

----------------------------------------------------------------------------
(* Session user: claims *)

\* C21: the session user follows the latest auth-state event: after a
\* sign-out event it is absent until the next sign-in event, and whenever it is
\* present it is the account the provider signed in last.
C21_UserFollowsAuthState ==
    user # NoUser => user.uid = authUser

\* C22: once a registration has stored the profile of the new account, the
\* session user established for that account carries the stored nickname,
\* never the local part of the e-mail address.
C22_RegisteredNickname ==
    \A uid \in Uids :
        (user # NoUser /\ user.uid = uid /\ profiles[uid] # <<>>) =>
            user.nickname = profiles[uid]

\* C23: a room is active only if a session user is present, and, once the
\* effects of a commit have run, a live subscription is attached to a room
\* exactly if a session user is present and that room is the current room.
C23_RoomNeedsUser ==
    /\ currentRoom # NoRoom => user # NoUser
    /\ effectPc = "idle" =>
           \A r \in RoomIds :
               listeners[r] = IF user # NoUser /\ currentRoom = r THEN 1 ELSE 0

\* the session user is in room "tech" after leaving "general", and the
\* subscription of "tech" is the only one
C23_Witness ==
    /\ authUser = "u1" /\ user # NoUser /\ user.uid = "u1"
    /\ currentRoom = "tech" /\ effectPc = "idle"
    /\ listeners = [r \in RoomIds |-> IF r = "tech" THEN 1 ELSE 0]
    /\ released = "general"

----------------------------------------------------------------------------
(* Summarizer: termination *)

\* C24: the in-flight flag is set only while a request is outstanding, and
\* every summarize that sets it is followed by a state in which it is reset,
\* given that the endpoint settles every request.
C24_FlagEventuallyReset ==
    /\ [](isGeneratingSummary => Len(summaryReqs) = 1)
    /\ isGeneratingSummary ~> ~isGeneratingSummary

\* a request has failed and the flag is reset
C24_Witness ==
    /\ Len(lastOp) = 3 /\ lastOp[2] = "failed"
    /\ ~isGeneratingSummary /\ summaryReqs = <<>>
    /\ messages # <<>> /\ currentRoom # NoRoom
====
